---- MODULE Spec2Model ----
(***************************************************************************)
(* The credential store of sqlpipe (internal/data/users.go): user accounts *)
(* and session tokens kept in an etcd key space, and the operations of     *)
(* UserModel on it.  Keys and values are byte strings; they are modelled   *)
(* as sequences of string atoms so that prefix scans, byte-wise compares,  *)
(* decimal formatting and JSON decoding are computed, not assumed.  The    *)
(* transfers table of TransferModel (internal/data/transfers.go) and its   *)
(* version column are modelled beside it.                                  *)
(***************************************************************************)
EXTENDS Integers, Sequences, FiniteSets, TLC

\* ------------------------------------------------------------------ bounds

\* The clock runs from StartTime to MaxTime (unix seconds, scaled down so
\* that the decimal rendering changes its width inside the range).
StartTime == 8
MaxTime == 11
\* The expiries a login may stamp on a token: MinExpiry .. MaxExpiry.
MinExpiry == 9
MaxExpiry == 10
\* Concurrent callers.
NumProcs == 2
\* Token keys (of either shape) the store holds at one time.
MaxTokenKeys == 1
\* The page sizes GetAll is asked for: 1 .. MaxPageSize.
MaxPageSize == 2
\* The pages GetAll is asked for by a paging caller: 1 .. MaxPage.
MaxPage == 2
\* Rows ever inserted into the transfers table.
MaxTransfers == 2
\* Updates stop at this version.
MaxVersion == 2

Procs == 1..NumProcs
Expiries == MinExpiry..MaxExpiry

\* Usernames, as sequences of atoms: "alice" is a proper string prefix of
\* "alice_2", and "alice_2" is no prefix of "alice".
Usernames == {<<"alice">>, <<"alice", "_2">>}
\* Raw bearer tokens a caller may present, and those the login flow issues
\* ("tokB" is never issued).
RawTokens == {"tokA", "tokB"}
IssuedTokens == {"tokA"}
\* The bcrypt output of SetPassword (users.go:89); opaque bytes.
BcryptedPasswords == {"$2a$12$pw"}

\* ------------------------------------------------------------ byte strings

Digit == {"0", "1", "2", "3", "4", "5", "6", "7", "8", "9"}

DigitOf(d) ==
    CASE d = 0 -> "0" [] d = 1 -> "1" [] d = 2 -> "2" [] d = 3 -> "3"
      [] d = 4 -> "4" [] d = 5 -> "5" [] d = 6 -> "6" [] d = 7 -> "7"
      [] d = 8 -> "8" [] d = 9 -> "9"

DigitVal(c) ==
    CASE c = "0" -> 0 [] c = "1" -> 1 [] c = "2" -> 2 [] c = "3" -> 3
      [] c = "4" -> 4 [] c = "5" -> 5 [] c = "6" -> 6 [] c = "7" -> 7
      [] c = "8" -> 8 [] c = "9" -> 9

\* fmt.Sprint of a non-negative integer: its decimal digits.
RECURSIVE Sprint(_)
Sprint(n) == IF n < 10 THEN <<DigitOf(n)>>
             ELSE Sprint(n \div 10) \o <<DigitOf(n % 10)>>

\* fmt.Sprint of a bool.
SprintBool(b) == IF b THEN <<"true">> ELSE <<"false">>

\* strconv.ParseInt(s, 10, 64) on an unsigned decimal: fails on the empty
\* string and on any non-digit.
ParseIntOk(s) == Len(s) > 0 /\ \A i \in 1..Len(s) : s[i] \in Digit

RECURSIVE ParseInt(_)
ParseInt(s) == IF Len(s) = 0 THEN 0
               ELSE 10 * ParseInt(SubSeq(s, 1, Len(s) - 1)) + DigitVal(s[Len(s)])

\* bytes.Compare(a, b) > 0 on strings of digits: the first differing byte
\* decides, and a proper prefix is smaller.
RECURSIVE BytesGreater(_, _)
BytesGreater(a, b) ==
    IF Len(a) = 0 THEN FALSE
    ELSE IF Len(b) = 0 THEN TRUE
    ELSE IF a[1] # b[1] THEN DigitVal(a[1]) > DigitVal(b[1])
    ELSE BytesGreater(Tail(a), Tail(b))

\* strings.HasPrefix
HasPrefix(s, p) == Len(s) >= Len(p) /\ SubSeq(s, 1, Len(p)) = p

\* fmt.Sprintf("%X", sha256.Sum256(b)): a deterministic, injective digest.
Sha256Hex(b) ==
    CASE b = "tokA" -> "9F2C..A"
      [] b = "tokB" -> "41D7..B"
      [] b = "$2a$12$pw" -> "C03E..P"

\* -------------------------------------------------------------- key paths

\* The prefix every account key lives under (the scan of GetAll).
UsersRoot == <<"sqlpipe/data/users">>

\* accounts/{username}: the account key (existence marker / record).
GetUserPath(username) == UsersRoot \o <<"/">> \o username

\* accounts/{username}/admin
GetUserAdminPath(username) == GetUserPath(username) \o <<"/", "admin">>

\* accounts/{username}/passwordHash
GetUserHashedPasswordPath(username) ==
    GetUserPath(username) \o <<"/", "passwordHash">>

\* accounts/{username}/tokens/{tokenHash}
GetUserTokenPath(username, hashedToken) ==
    GetUserPath(username) \o <<"/", "tokens", "/", hashedToken>>

\* fmt.Sprintf("%v/tokens", userDataPath) of GetUserCheckToken.
UserTokensPath(username) == GetUserPath(username) \o <<"/", "tokens">>

\* ------------------------------------------------------------------- JSON

\* json.Marshal(User): Username, BcryptedPassword (tag "_") and Admin are
\* written; PlaintextPassword and AuthToken (tag "-") are not.
MarshalUser(user) ==
    <<"{", "\"username\":">> \o user.Username
       \o <<"\"_\":", user.BcryptedPassword>>
       \o <<"\"admin\":">> \o SprintBool(user.Admin) \o <<"}">>

\* json.Marshal(Token): the expiry, as a decimal string.
MarshalToken(expiry) == <<"{", "\"expiryUnixTime\":">> \o Sprint(expiry) \o <<"}">>

\* A JSON document: json.Unmarshal fails on anything else (the empty value
\* of a marker, a bare decimal, a bare hash).
IsJsonObject(v) == Len(v) >= 2 /\ v[1] = "{" /\ v[Len(v)] = "}"

\* Position of the field name `name` in the object, or 0.
FieldAt(v, name) ==
    IF \E i \in 1..Len(v) : v[i] = name
    THEN CHOOSE i \in 1..Len(v) : v[i] = name
    ELSE 0

\* The atoms of the field that starts after position i: up to the next field
\* name or the closing brace.
RECURSIVE FieldValue(_, _)
FieldValue(v, i) ==
    IF i >= Len(v) \/ v[i + 1] \in {"}", "\"username\":", "\"_\":", "\"admin\":",
                                    "\"expiryUnixTime\":"}
    THEN <<>>
    ELSE <<v[i + 1]>> \o FieldValue(v, i + 1)

\* json.Unmarshal(v, &user) into User / ScrubbedUser: fields that are
\* missing keep their zero value, unknown fields are ignored.
UnmarshalUser(v) ==
    [Username |-> IF FieldAt(v, "\"username\":") = 0 THEN <<>>
                  ELSE FieldValue(v, FieldAt(v, "\"username\":")),
     Admin |-> /\ FieldAt(v, "\"admin\":") # 0
               /\ FieldValue(v, FieldAt(v, "\"admin\":")) = <<"true">>]

\* json.Unmarshal(v, &token): Token.ExpiryUnixTime, "" when missing.
UnmarshalToken(v) ==
    IF FieldAt(v, "\"expiryUnixTime\":") = 0 THEN <<>>
    ELSE FieldValue(v, FieldAt(v, "\"expiryUnixTime\":"))

\* User.Scrub
Scrub(user) == [Username |-> user.Username, Admin |-> user.Admin]

\* ------------------------------------------------------------- the store

\* The etcd key space: a function from the keys present to their values.
\* clientv3.Compare(CreateRevision(k), ">", 0): the key exists.
KeyExists(store, k) == k \in DOMAIN store

\* clientv3.Compare(Value(k), ">", v): false on a missing key, else the
\* byte-wise comparison of the stored value with v.
ValueGreater(store, k, v) == KeyExists(store, k) /\ BytesGreater(store[k], v)

\* OpGet(k) / Get(k): the range response for one key, as its Kvs.
Range(store, k) ==
    IF KeyExists(store, k) THEN <<[Key |-> k, Value |-> store[k]]>> ELSE <<>>

\* Get(k, WithPrefix()): the keys of the response (Count is their number).
PrefixKeys(store, prefix) == {k \in DOMAIN store : HasPrefix(k, prefix)}

\* OpPut(k, v) applied to a store.
Put(store, k, v) == [x \in DOMAIN store \cup {k} |-> IF x = k THEN v ELSE store[x]]

\* Delete(prefix, WithPrefix()) applied to a store.
DeletePrefix(store, prefix) ==
    [x \in DOMAIN store \ PrefixKeys(store, prefix) |-> store[x]]

\* ------------------------------------------------------------------ state

VARIABLES
    kv,     \* the etcd key space
    now,    \* time.Now().Unix()
    pend,   \* per caller: the operation it is inside, between two store calls
    last,   \* the call that returned in the step just taken, with its result
    outs,   \* per caller of a creation race: what its creation returned
    transfers,  \* the rows of the transfers table, by id
    nextID,     \* the next value of the table's auto-increment id
    held        \* per caller: ID and Version of the Transfer struct it holds

vars == <<kv, now, pend, last, outs, transfers, nextID, held>>

\* The state of the transfer records.
transferVars == <<transfers, nextID, held>>

\* The arguments of a call.
NoArgs == [user |-> <<>>, caller |-> <<>>, tok |-> "", admin |-> FALSE,
           nameFilter |-> <<>>, adminFilter |-> "nil",
           page |-> 0, pageSize |-> 0, sort |-> "",
           id |-> 0, version |-> 0]

OfUser(username) == [NoArgs EXCEPT !.user = username]
OfNewUser(newUser) == [NoArgs EXCEPT !.user = newUser.Username, !.admin = newUser.Admin]
OfToken(username, rawToken) == [NoArgs EXCEPT !.user = username, !.tok = rawToken]
OfCreation(newUser, callingUser) ==
    [NoArgs EXCEPT !.user = newUser.Username, !.caller = callingUser.Username,
                   !.tok = callingUser.AuthToken]

\* at: the clock when the operation's transaction ran.
Idle == [op |-> "idle", arg |-> NoArgs, resp |-> <<>>, at |-> 0]

NoOp == [op |-> "none", arg |-> NoArgs, out |-> "", ret |-> <<>>]

\* A call's result: out is "nil" or the error returned ("panic" when the
\* call panics); ret holds the scrubbed users returned.
Returned(op, arg, out, ret) == [op |-> op, arg |-> arg, out |-> out, ret |-> ret]

\* The zero Transfer, by the fields Update's WHERE reads: no row has id 0.
NoTransfer == [ID |-> 0, Version |-> 0]

Users == [Username : Usernames, Admin : BOOLEAN, BcryptedPassword : BcryptedPasswords]
Callers == [Username : Usernames, AuthToken : RawTokens]

\* The token keys of the store, of either shape.
TokenKeys(store) == {k \in DOMAIN store : \E i \in 1..Len(k) : k[i] = "tokens"}

Init ==
    /\ kv = [k \in {} |-> <<>>]
    /\ now = StartTime
    /\ pend = [p \in Procs |-> Idle]
    /\ last = NoOp
    /\ outs = [p \in Procs |-> ""]
    /\ transfers = [id \in {} |-> [ID |-> id, Status |-> "", Version |-> 0]]
    /\ nextID = 1
    /\ held = [p \in Procs |-> NoTransfer]

\* ---------------------------------------------------------------- Insert

\* Insert with its If left out: the transaction always takes Then.
InsertGuardNone(store, newUser) == TRUE

\* The If of Insert's transaction: CreateRevision(newUserPath) = 0.
InsertGuard(store, newUser) == ~KeyExists(store, GetUserPath(newUser.Username))

\* The Then of both creations: the marker, the password hash, the admin flag.
InsertPuts(store, newUser) ==
    Put(Put(Put(store, GetUserPath(newUser.Username), <<>>),
            GetUserHashedPasswordPath(newUser.Username),
            <<Sha256Hex(newUser.BcryptedPassword)>>),
        GetUserAdminPath(newUser.Username), SprintBool(newUser.Admin))

\* Insert with the three puts outside the transaction's condition: they are
\* made whether or not the account exists.
InsertPutsUnguarded(p, newUser) ==
    /\ pend[p].op = "idle"
    /\ kv' = InsertPuts(kv, newUser)
    /\ last' = Returned("Insert", OfNewUser(newUser),
                        IF InsertGuard(kv, newUser) THEN "nil" ELSE "ErrDuplicateUsername",
                        <<>>)
    /\ UNCHANGED <<now, pend>>

Insert(p, newUser) ==
    /\ pend[p].op = "idle"
    /\ IF InsertGuard(kv, newUser)
       THEN /\ kv' = InsertPuts(kv, newUser)
            /\ last' = Returned("Insert", OfNewUser(newUser), "nil", <<>>)
       ELSE /\ kv' = kv
            /\ last' = Returned("Insert", OfNewUser(newUser),
                                "ErrDuplicateUsername", <<>>)
    /\ UNCHANGED <<now, pend>>

\* ------------------------------------------------------ InsertCheckToken

CallingUserTokenPath(callingUser) ==
    GetUserTokenPath(callingUser.Username, Sha256Hex(callingUser.AuthToken))

\* The If of InsertCheckToken's transaction, at time t.
InsertCheckTokenGuard(store, newUser, callingUser, t) ==
    /\ KeyExists(store, CallingUserTokenPath(callingUser))
    /\ ValueGreater(store, CallingUserTokenPath(callingUser), Sprint(t))
    /\ ~KeyExists(store, GetUserPath(newUser.Username))

\* The Else of the transaction: the two reads.
InsertCheckTokenElse(store, newUser, callingUser) ==
    <<Range(store, CallingUserTokenPath(callingUser)),
      Range(store, GetUserPath(newUser.Username))>>

\* The diagnosis of a failed transaction from its two reads, at time t.
InsertCheckTokenDiagnose(resp, t) ==
    IF Len(resp[1]) = 0 THEN "ErrInvalidCredentials"
    ELSE IF ~ParseIntOk(resp[1][1].Value) THEN "NumError"
    ELSE IF ParseInt(resp[1][1].Value) < t THEN "ErrInvalidCredentials"
    ELSE IF Len(resp[2]) # 0 THEN "ErrDuplicateUsername"
    ELSE "panic"

\* The transaction commits; on success the call returns.
InsertCheckTokenTxn(p, newUser, callingUser) ==
    /\ pend[p].op = "idle"
    /\ IF InsertCheckTokenGuard(kv, newUser, callingUser, now)
       THEN /\ kv' = InsertPuts(kv, newUser)
            /\ pend' = pend
            /\ last' = Returned("InsertCheckToken",
                                [OfCreation(newUser, callingUser)
                                   EXCEPT !.admin = newUser.Admin],
                                "nil", <<Scrub(newUser)>>)
       ELSE /\ kv' = kv
            /\ pend' = [pend EXCEPT ![p] =
                          [op |-> "InsertCheckToken",
                           arg |-> OfCreation(newUser, callingUser),
                           resp |-> InsertCheckTokenElse(kv, newUser, callingUser),
                           at |-> now]]
            /\ last' = NoOp
    /\ UNCHANGED now

\* The caller reads the clock again and classifies the failure.
InsertCheckTokenFail(p) ==
    /\ pend[p].op = "InsertCheckToken"
    /\ last' = Returned("InsertCheckToken", pend[p].arg,
                        InsertCheckTokenDiagnose(pend[p].resp, now), <<>>)
    /\ pend' = [pend EXCEPT ![p] = Idle]
    /\ UNCHANGED <<kv, now>>

\* -------------------------------------------------------------------- Get

\* Get: one read of the account key, decoded as a User and scrubbed.
GetOut(store, username) ==
    IF Len(Range(store, GetUserPath(username))) = 0 THEN "ErrRecordNotFound"
    ELSE IF ~IsJsonObject(store[GetUserPath(username)]) THEN "SyntaxError"
    ELSE "nil"

GetRet(store, username) ==
    IF GetOut(store, username) = "nil"
    THEN <<Scrub(UnmarshalUser(store[GetUserPath(username)]))>>
    ELSE <<>>

Get(p, username) ==
    /\ pend[p].op = "idle"
    /\ last' = Returned("Get", OfUser(username),
                        GetOut(kv, username), GetRet(kv, username))
    /\ UNCHANGED <<kv, now, pend>>

\* ---------------------------------------------------- GetUserWithPassword

\* strconv.ParseBool succeeds on these values ("1", "t", "T", "TRUE", "True"
\* and their false counterparts are never written).
ParseBoolOk(v) == v \in {<<"true">>, <<"false">>}

\* The keys of the scan whose whole key is the string name: the case labels
\* of the switch are compared with string(kv.Key).
KeysNamed(store, username, name) ==
    {k \in PrefixKeys(store, GetUserPath(username)) : k = <<name>>}

GetUserWithPasswordOut(store, username) ==
    IF PrefixKeys(store, GetUserPath(username)) = {} THEN "ErrRecordNotFound"
    ELSE IF \E k \in KeysNamed(store, username, "admin") : ~ParseBoolOk(store[k])
         THEN "SyntaxError"
    ELSE "nil"

\* The User assembled: Username is the argument, Admin and BcryptedPassword
\* keep their zero values unless a case of the switch matches.
GetUserWithPasswordRet(store, username) ==
    IF GetUserWithPasswordOut(store, username) # "nil" THEN <<>>
    ELSE <<[Username |-> username,
            Admin |-> \E k \in KeysNamed(store, username, "admin") :
                         store[k] = <<"true">>,
            BcryptedPassword |->
                IF KeysNamed(store, username, "hashed_password") = {} THEN <<>>
                ELSE store[CHOOSE k \in KeysNamed(store, username, "hashed_password") :
                              TRUE]]>>

GetUserWithPassword(p, username) ==
    /\ pend[p].op = "idle"
    /\ last' = Returned("GetUserWithPassword", OfUser(username),
                        GetUserWithPasswordOut(kv, username),
                        GetUserWithPasswordRet(kv, username))
    /\ UNCHANGED <<kv, now, pend>>

\* ------------------------------------------------------ GetUserCheckToken

\* The If of GetUserCheckToken's transaction: the account key and the key
\* "<account key>/tokens" both exist.  inputToken takes no part in it.
GetUserCheckTokenGuard(store, username, inputToken) ==
    /\ KeyExists(store, GetUserPath(username))
    /\ KeyExists(store, UserTokensPath(username))

\* The Then of the transaction: the two reads.
GetUserCheckTokenThen(store, username, inputToken) ==
    <<Range(store, UserTokensPath(username)), Range(store, GetUserPath(username))>>

\* What the caller makes of the two reads, at time t.
GetUserCheckTokenOut(resp, t) ==
    IF ~IsJsonObject(resp[1][1].Value) THEN "SyntaxError"
    ELSE IF ~ParseIntOk(UnmarshalToken(resp[1][1].Value)) THEN "NumError"
    ELSE IF ParseInt(UnmarshalToken(resp[1][1].Value)) < t THEN "ErrRecordNotFound"
    ELSE IF ~IsJsonObject(resp[2][1].Value) THEN "SyntaxError"
    ELSE "nil"

GetUserCheckTokenRet(resp, t) ==
    IF GetUserCheckTokenOut(resp, t) = "nil"
    THEN <<Scrub(UnmarshalUser(resp[2][1].Value))>>
    ELSE <<>>

GetUserCheckTokenTxn(p, username, inputToken) ==
    /\ pend[p].op = "idle"
    /\ IF GetUserCheckTokenGuard(kv, username, inputToken)
       THEN /\ pend' = [pend EXCEPT ![p] =
                          [op |-> "GetUserCheckToken",
                           arg |-> OfToken(username, inputToken),
                           resp |-> GetUserCheckTokenThen(kv, username, inputToken),
                           at |-> now]]
            /\ last' = NoOp
       ELSE /\ pend' = pend
            /\ last' = Returned("GetUserCheckToken", OfToken(username, inputToken),
                                "ErrRecordNotFound", <<>>)
    /\ UNCHANGED <<kv, now>>

GetUserCheckTokenCheck(p) ==
    /\ pend[p].op = "GetUserCheckToken"
    /\ last' = Returned("GetUserCheckToken", pend[p].arg,
                        GetUserCheckTokenOut(pend[p].resp, now),
                        GetUserCheckTokenRet(pend[p].resp, now))
    /\ pend' = [pend EXCEPT ![p] = Idle]
    /\ UNCHANGED <<kv, now>>

\* ----------------------------------------------------------- UpdateNoLock

\* The overwrite made conditional on the account key: an update of a
\* missing account writes nothing.
UpdateNoLockPutIfPresent(store, user) ==
    IF KeyExists(store, GetUserPath(user.Username))
    THEN Put(store, GetUserPath(user.Username), MarshalUser(user))
    ELSE store

\* One unconditional Put of the serialized record on the account key.
UpdateNoLockPut(store, user) == Put(store, GetUserPath(user.Username), MarshalUser(user))

UpdateNoLock(p, user) ==
    /\ pend[p].op = "idle"
    /\ kv' = UpdateNoLockPut(kv, user)
    /\ last' = Returned("UpdateNoLock", OfNewUser(user), "nil", <<>>)
    /\ UNCHANGED <<now, pend>>

\* ----------------------------------------------------------------- Delete

\* The existence check: Get(userDataPath, WithPrefix()) returned something.
DeleteFound(store, username) == PrefixKeys(store, GetUserPath(username)) # {}

\* Delete(userDataPath) without WithPrefix(): the account key alone goes.
DeleteKeysAccountOnly(store, username) ==
    [x \in DOMAIN store \ {GetUserPath(username)} |-> store[x]]

\* Delete(userDataPath, WithPrefix()).
DeleteKeys(store, username) == DeletePrefix(store, GetUserPath(username))

DeleteGet(p, username) ==
    /\ pend[p].op = "idle"
    /\ IF DeleteFound(kv, username)
       THEN /\ pend' = [pend EXCEPT ![p] =
                          [op |-> "Delete", arg |-> OfUser(username), resp |-> <<>>,
                           at |-> now]]
            /\ last' = NoOp
       ELSE /\ pend' = pend
            /\ last' = Returned("Delete", OfUser(username), "ErrRecordNotFound", <<>>)
    /\ UNCHANGED <<kv, now>>

DeleteDelete(p) ==
    /\ pend[p].op = "Delete"
    /\ kv' = DeleteKeys(kv, pend[p].arg.user)
    /\ last' = Returned("Delete", pend[p].arg, "nil", <<>>)
    /\ pend' = [pend EXCEPT ![p] = Idle]
    /\ UNCHANGED now

\* ------------------------------------------------------------ environment

\* The login flow issues a token for an existing account: the key
\* accounts/{username}/tokens/{hash}, holding the expiry as decimal text.
IssueToken(username, rawToken, expiry) ==
    /\ KeyExists(kv, GetUserPath(username))
    /\ kv' = Put(kv, GetUserTokenPath(username, Sha256Hex(rawToken)), Sprint(expiry))
    /\ Cardinality(TokenKeys(kv')) <= MaxTokenKeys
    /\ last' = NoOp
    /\ UNCHANGED <<now, pend>>

\* The session record GetUserCheckToken reads: the key "<account key>/tokens",
\* holding a JSON Token.
IssueSession(username, expiry) ==
    /\ KeyExists(kv, GetUserPath(username))
    /\ kv' = Put(kv, UserTokensPath(username), MarshalToken(expiry))
    /\ Cardinality(TokenKeys(kv')) <= MaxTokenKeys
    /\ last' = NoOp
    /\ UNCHANGED <<now, pend>>

\* The clock advances.
Tick ==
    /\ now < MaxTime
    /\ now' = now + 1
    /\ last' = NoOp
    /\ UNCHANGED <<kv, pend>>

\* ----------------------------------------------------------------- GetAll

\* strings.Split(s, "/"): the segments between the separators.
RECURSIVE Split(_)
Split(s) ==
    IF \A i \in 1..Len(s) : s[i] # "/" THEN <<s>>
    ELSE LET i == CHOOSE j \in 1..Len(s) :
                      s[j] = "/" /\ \A h \in 1..(j - 1) : s[h] # "/"
         IN <<SubSeq(s, 1, i - 1)>> \o Split(SubSeq(s, i + 1, Len(s)))

\* strings.TrimPrefix(key, "sqlpipe/data/users")
TrimUsersRoot(key) == IF HasPrefix(key, UsersRoot) THEN Tail(key) ELSE key

\* strings.Contains
Contains(s, sub) ==
    \E i \in 0..(Len(s) - Len(sub)) : SubSeq(s, i + 1, i + Len(sub)) = sub

\* The byte order of the atoms usernames are made of ('_' < 'a' < 'b').
AtomRank(a) == CASE a = "_2" -> 0 [] a = "alice" -> 1 [] OTHER -> 2

\* a < b on strings.
RECURSIVE StringLess(_, _)
StringLess(a, b) ==
    IF Len(b) = 0 THEN FALSE
    ELSE IF Len(a) = 0 THEN TRUE
    ELSE IF a[1] # b[1] THEN AtomRank(a[1]) < AtomRank(b[1])
    ELSE StringLess(Tail(a), Tail(b))

\* Filters.offset, Filters.limit
FiltersOffset(filters) == (filters.Page - 1) * filters.PageSize
FiltersLimit(filters) == filters.PageSize

\* The keys of the scan that GetAll takes for accounts: the first level is
\* the whole key (no child), and it contains the username filter.
GetAllNodes(store, username) ==
    {k \in PrefixKeys(store, UsersRoot) :
        /\ ~(Len(Split(TrimUsersRoot(k))) > 1)
        /\ ~(username # <<>> /\ ~Contains(Split(TrimUsersRoot(k))[1], username))}

\* The accounts that pass the admin filter ("nil": no filter), decoded.
GetAllMatches(store, username, admin) ==
    {k \in GetAllNodes(store, username) :
        ~(admin # "nil" /\ UnmarshalUser(store[k]).Admin # (admin = "true"))}

\* sort.Slice by Username, ascending or ("-username") descending.
RECURSIVE SortUsers(_, _, _)
SortUsers(store, keys, sort) ==
    IF keys = {} THEN <<>>
    ELSE LET name(k) == UnmarshalUser(store[k]).Username
             first == CHOOSE k \in keys : \A o \in keys :
                        IF sort = "-username" THEN ~StringLess(name(k), name(o))
                        ELSE ~StringLess(name(o), name(k))
         IN <<Scrub(UnmarshalUser(store[first]))>>
              \o SortUsers(store, keys \ {first}, sort)

\* json.Unmarshal fails on an account value: GetAll returns the error.
GetAllOut(store, username) ==
    IF \E k \in GetAllNodes(store, username) : ~IsJsonObject(store[k])
    THEN "SyntaxError" ELSE "nil"

\* The page returned.
GetAllPage(store, username, admin, filters) ==
    LET users == SortUsers(store, GetAllMatches(store, username, admin), filters.Sort)
        totalRecords == Len(users)
        maxItem == IF FiltersOffset(filters) + FiltersLimit(filters) < totalRecords
                   THEN FiltersOffset(filters) + FiltersLimit(filters)
                   ELSE totalRecords
    IN IF GetAllOut(store, username) # "nil" THEN <<>>
       ELSE IF FiltersOffset(filters) > totalRecords THEN <<>>
       ELSE [i \in 1..(IF maxItem > FiltersOffset(filters)
                       THEN maxItem - FiltersOffset(filters) ELSE 0)
               |-> users[FiltersOffset(filters) + i]]

GetAll(p, username, admin, filters) ==
    /\ pend[p].op = "idle"
    /\ last' = Returned("GetAll",
                        [NoArgs EXCEPT !.nameFilter = username, !.adminFilter = admin,
                                       !.page = filters.Page,
                                       !.pageSize = filters.PageSize,
                                       !.sort = filters.Sort],
                        GetAllOut(kv, username),
                        GetAllPage(kv, username, admin, filters))
    /\ UNCHANGED <<kv, now, pend>>

\* totalRecords, which GetAll hands to calculateMetadata.
GetAllTotal(store, username, admin) ==
    IF GetAllOut(store, username) # "nil" THEN 0
    ELSE Cardinality(GetAllMatches(store, username, admin))

\* The filters GetAll is called with.
FilterSets == [Page : {1}, PageSize : 1..MaxPageSize, Sort : {"username", "-username"}]

\* ------------------------------------------------------------------- Spec

\* The creations, by the callers of P.
Creations(P) ==
    \/ \E p \in P, newUser \in Users : Insert(p, newUser)
    \/ \E p \in P, newUser \in Users, callingUser \in Callers :
          InsertCheckTokenTxn(p, newUser, callingUser)
    \/ \E p \in P : InsertCheckTokenFail(p)

\* The reads of one account.
Reads(P) ==
    \/ \E p \in P, username \in Usernames : Get(p, username)
    \/ \E p \in P, username \in Usernames, inputToken \in RawTokens :
          GetUserCheckTokenTxn(p, username, inputToken)
    \/ \E p \in P : GetUserCheckTokenCheck(p)

\* Overwrite and deletion.
Maintenance(P) ==
    \/ \E p \in P, user \in Users : UpdateNoLock(p, user)
    \/ \E p \in P, username \in Usernames : DeleteGet(p, username)
    \/ \E p \in P : DeleteDelete(p)

\* The login flow.
Login ==
    \/ \E username \in Usernames, rawToken \in IssuedTokens, expiry \in Expiries :
          IssueToken(username, rawToken, expiry)
    \/ \E username \in Usernames, expiry \in Expiries : IssueSession(username, expiry)

\* One caller at a time, the login flow and the clock.
Next ==
    /\ \/ Creations({1})
       \/ Reads({1})
       \/ Maintenance({1})
       \/ \E filters \in FilterSets : GetAll(1, <<>>, "nil", filters)
       \/ Login
       \/ Tick
    /\ UNCHANGED <<outs, transferVars>>

Spec == Init /\ [][Next]_vars

\* The account operations and the login flow, the clock standing still; a
\* second caller overwrites and deletes while the first is inside a call.
NextAccounts ==
    /\ \/ Creations({1})
       \/ Reads({1})
       \/ Maintenance({1, 2})
       \/ Login
    /\ UNCHANGED <<outs, transferVars>>

SpecAccounts == Init /\ [][NextAccounts]_vars

\* The life of an account, one call at a time: creation, reads, overwrite and
\* deletion, with the login flow in between.
NextLifecycle ==
    /\ \/ Creations({1})
       \/ Reads({1})
       \/ Maintenance({1})
       \/ Login
    /\ UNCHANGED <<outs, transferVars>>

SpecLifecycle == Init /\ [][NextLifecycle]_vars

\* The writers alone: creations, overwrite, deletion and the login flow.
NextWrites ==
    /\ \/ Creations({1})
       \/ Maintenance({1})
       \/ Login
    /\ UNCHANGED <<outs, transferVars>>

SpecWrites == Init /\ [][NextWrites]_vars

\* The writers and the full-credential read.
NextCredentials ==
    /\ \/ Creations({1})
       \/ Maintenance({1})
       \/ Login
       \/ \E username \in Usernames : GetUserWithPassword(1, username)
    /\ UNCHANGED <<outs, transferVars>>

SpecCredentials == Init /\ [][NextCredentials]_vars

\* Two callers overwrite and delete concurrently, beside bootstrap creation
\* and the login flow.
NextOverwrite ==
    /\ \/ \E newUser \in Users : Insert(1, newUser)
       \/ Maintenance({1, 2})
       \/ Login
    /\ UNCHANGED <<outs, transferVars>>

SpecOverwrite == Init /\ [][NextOverwrite]_vars

\* The filters of a paging caller, and the username and admin filters.
PagingFilters ==
    [Page : 1..MaxPage, PageSize : 1..MaxPageSize, Sort : {"username", "-username"}]
NameFilters == {<<>>, <<"_2">>}
AdminFilters == {"nil", "true"}

\* Accounts are created, overwritten and deleted, and listed page by page.
NextListing ==
    /\ \/ \E newUser \in Users : Insert(1, newUser)
       \/ Maintenance({1})
       \/ \E username \in NameFilters, admin \in AdminFilters,
             filters \in PagingFilters : GetAll(1, username, admin, filters)
    /\ UNCHANGED <<outs, transferVars>>

SpecListing == Init /\ [][NextListing]_vars

\* The creations, the login flow and the clock: tokens expire while
\* accounts are created.
NextCreations ==
    /\ \/ Creations({1})
       \/ Login
       \/ Tick
    /\ UNCHANGED <<outs, transferVars>>

SpecCreations == Init /\ [][NextCreations]_vars

\* --------------------------------------------------------- TransferModel

\* The statuses a caller writes to a transfer.
Statuses == {"complete"}

\* The version a new row gets from the table's column default.
InitialVersion == 1

\* Insert: the row gets the next id and the default version, and the caller's
\* struct receives both (RETURNING id, created_at, version).
TransferInsert(p) ==
    /\ nextID <= MaxTransfers
    /\ transfers' = [id \in DOMAIN transfers \cup {nextID} |->
                       IF id = nextID
                       THEN [ID |-> nextID, Status |-> "queued", Version |-> InitialVersion]
                       ELSE transfers[id]]
    /\ nextID' = nextID + 1
    /\ held' = [held EXCEPT ![p] = [ID |-> nextID, Version |-> InitialVersion]]
    /\ last' = Returned("TransferInsert", [NoArgs EXCEPT !.id = nextID], "nil", <<>>)

\* GetById: the caller receives a copy of the row.
TransferGetById(p, id) ==
    /\ IF id \in DOMAIN transfers
       THEN /\ held' = [held EXCEPT ![p] = [ID |-> id, Version |-> transfers[id].Version]]
            /\ last' = Returned("TransferGetById", [NoArgs EXCEPT !.id = id], "nil", <<>>)
       ELSE /\ held' = held
            /\ last' = Returned("TransferGetById", [NoArgs EXCEPT !.id = id],
                                "ErrRecordNotFound", <<>>)
    /\ UNCHANGED <<transfers, nextID>>

\* The WHERE of Update with the version test left out: WHERE id = $4.
TransferUpdateWhereID(rows, transfer) == transfer.ID \in DOMAIN rows

\* The WHERE of Update: id = $4 AND version = $5.
TransferUpdateWhere(rows, transfer) ==
    transfer.ID \in DOMAIN rows /\ rows[transfer.ID].Version = transfer.Version

\* The SET of Update: status and version = version + 1.
TransferUpdateSet(rows, transfer, status) ==
    [rows EXCEPT ![transfer.ID] =
        [ID |-> transfer.ID, Status |-> status,
         Version |-> rows[transfer.ID].Version + 1]]

\* Update with the caller's struct carrying status: one statement; the struct
\* receives the new version (RETURNING version), and no row means
\* ErrEditConflict.
TransferUpdate(p, status) ==
    LET transfer == held[p]
        arg == [NoArgs EXCEPT !.id = transfer.ID, !.version = transfer.Version]
    IN /\ held[p] # NoTransfer
       /\ held[p].Version < MaxVersion
       /\ IF TransferUpdateWhere(transfers, transfer)
          THEN /\ transfers' = TransferUpdateSet(transfers, transfer, status)
               /\ held' = [held EXCEPT ![p] =
                              [transfer EXCEPT !.Version = transfers'[transfer.ID].Version]]
               /\ last' = Returned("TransferUpdate", arg, "nil", <<>>)
          ELSE /\ transfers' = transfers
               /\ held' = held
               /\ last' = Returned("TransferUpdate", arg, "ErrEditConflict", <<>>)
       /\ UNCHANGED nextID

\* Delete: ErrRecordNotFound for an id below 1 or when no row was affected.
TransferDelete(p, id) ==
    /\ IF id >= 1 /\ id \in DOMAIN transfers
       THEN /\ transfers' = [x \in DOMAIN transfers \ {id} |-> transfers[x]]
            /\ last' = Returned("TransferDelete", [NoArgs EXCEPT !.id = id], "nil", <<>>)
       ELSE /\ transfers' = transfers
            /\ last' = Returned("TransferDelete", [NoArgs EXCEPT !.id = id],
                                "ErrRecordNotFound", <<>>)
    /\ UNCHANGED <<nextID, held>>

\* Concurrent callers work on the transfers table.
NextTransfers ==
    /\ \/ \E p \in Procs : TransferInsert(p)
       \/ \E p \in Procs, id \in 0..MaxTransfers : TransferGetById(p, id)
       \/ \E p \in Procs, status \in Statuses : TransferUpdate(p, status)
       \/ \E p \in Procs, id \in 0..MaxTransfers : TransferDelete(p, id)
    /\ UNCHANGED <<kv, now, pend, outs>>

SpecTransfers == Init /\ [][NextTransfers]_vars

\* ------------------------------------------------------ a creation race

\* The username the creations race for, and the account that holds the
\* caller's token.
RaceTarget == <<"alice", "_2">>
RaceCaller == [Username |-> <<"alice">>, AuthToken |-> "tokA"]

\* The account of the caller exists and holds a token; the target does not.
InitUnique ==
    /\ \E expiry \in Expiries, admin \in BOOLEAN :
          kv = Put(InsertPuts([k \in {} |-> <<>>],
                              [Username |-> RaceCaller.Username, Admin |-> admin,
                               BcryptedPassword |-> "$2a$12$pw"]),
                   CallingUserTokenPath(RaceCaller), Sprint(expiry))
    /\ now = StartTime
    /\ pend = [p \in Procs |-> Idle]
    /\ last = NoOp
    /\ outs = [p \in Procs |-> ""]
    /\ transfers = [id \in {} |-> [ID |-> id, Status |-> "", Version |-> 0]]
    /\ nextID = 1
    /\ held = [p \in Procs |-> NoTransfer]

\* Every caller runs one creation of the target, by Insert or by
\* InsertCheckToken with the caller's token while it is unexpired; outs
\* keeps what each creation returned.
NextUnique ==
    \/ /\ \E p \in Procs :
             /\ outs[p] = ""
             /\ \/ \E newUser \in Users :
                      newUser.Username = RaceTarget /\ Insert(p, newUser)
                \/ \E newUser \in Users :
                      /\ newUser.Username = RaceTarget
                      /\ ParseInt(kv[CallingUserTokenPath(RaceCaller)]) > now
                      /\ InsertCheckTokenTxn(p, newUser, RaceCaller)
                \/ InsertCheckTokenFail(p)
             /\ outs' = [outs EXCEPT ![p] = last'.out]
       /\ UNCHANGED transferVars
    \/ Tick /\ UNCHANGED <<outs, transferVars>>

SpecUnique == InitUnique /\ [][NextUnique]_vars

\* ----------------------------------------------- what the claims speak of

\* The account key of username exists.
AccountExists(store, username) == GetUserPath(username) \in DOMAIN store

\* The keys of the account of username: its account key and its descendants.
KeysOf(store, username) ==
    {k \in DOMAIN store :
        k = GetUserPath(username) \/ HasPrefix(k, GetUserPath(username) \o <<"/">>)}

\* The key a raw token of username is stored under.
TokenKeyOf(username, rawToken) == GetUserTokenPath(username, Sha256Hex(rawToken))

\* The step just taken is the return of a call of op.
Returns(op) == last'.op = op

\* The callers whose creation succeeded.
Winners == {p \in Procs : outs[p] = "nil"}

\* C1 (uniqueness under concurrency): of the concurrent creations of one
\* username never two succeed, and when all have returned exactly one has
\* succeeded and each of the others has returned ErrDuplicateUsername.
C1_UniqueCreation ==
    /\ Cardinality(Winners) <= 1
    /\ (\A p \in Procs : outs[p] # "")
          => /\ Cardinality(Winners) = 1
             /\ \A p \in Procs \ Winners : outs[p] = "ErrDuplicateUsername"

\* C2 (token expiry monotonicity): when GetUserCheckToken(u, tok) returns, and
\* the store it ran against holds the account of u and the token key of tok
\* with expiry t, it returned the scrubbed account of u if now < t and
\* ErrRecordNotFound if now >= t.
C2_TokenExpiryMonotone ==
    [][\A u \in Usernames, tok \in RawTokens :
         (/\ Returns("GetUserCheckToken")
          /\ last'.arg.user = u /\ last'.arg.tok = tok
          /\ AccountExists(kv, u)
          /\ TokenKeyOf(u, tok) \in DOMAIN kv)
         => IF now < ParseInt(kv[TokenKeyOf(u, tok)])
            THEN last'.out = "nil" /\ Len(last'.ret) = 1 /\ last'.ret[1].Username = u
            ELSE last'.out = "ErrRecordNotFound"]_vars

CreationAllowed(store, arg, t) ==
    /\ TokenKeyOf(arg.caller, arg.tok) \in DOMAIN store
    /\ ParseInt(store[TokenKeyOf(arg.caller, arg.tok)]) > t
    /\ ~AccountExists(store, arg.user)

\* C4 (authenticated creation guard): the transaction of InsertCheckToken
\* writes the three keys of the new account and the call returns the scrubbed
\* new account if and only if the three conditions hold in the store it sees.
C4_CreationGuard ==
    [][/\ (Returns("InsertCheckToken") /\ last'.out = "nil")
            => /\ CreationAllowed(kv, last'.arg, now)
               /\ {GetUserPath(last'.arg.user), GetUserAdminPath(last'.arg.user),
                   GetUserHashedPasswordPath(last'.arg.user)} \subseteq DOMAIN kv'
               /\ last'.ret = <<[Username |-> last'.arg.user, Admin |-> last'.arg.admin]>>
       /\ \A p \in Procs :
            (pend[p].op = "idle" /\ pend'[p].op = "InsertCheckToken")
               => ~CreationAllowed(kv, pend'[p].arg, now)]_vars

\* C5 (failure classification, credentials before uniqueness): a failed
\* InsertCheckToken returns ErrInvalidCredentials when the token key was
\* absent, else ErrInvalidCredentials when the token had expired (its expiry
\* was not in the future when the transaction ran), else ErrDuplicateUsername
\* when the target exists.
C5_FailureClassification ==
    [][\A p \in Procs :
         (pend[p].op = "InsertCheckToken" /\ pend'[p].op = "idle")
            => IF Len(pend[p].resp[1]) = 0 THEN last'.out = "ErrInvalidCredentials"
               ELSE IF ParseInt(pend[p].resp[1][1].Value) <= pend[p].at
                    THEN last'.out = "ErrInvalidCredentials"
               ELSE IF Len(pend[p].resp[2]) # 0 THEN last'.out = "ErrDuplicateUsername"
               ELSE TRUE]_vars

\* C6 (create-then-get round trip): a Get(u) that directly follows the
\* successful creation of u with admin flag a returns {username: u, admin: a}.
C6_CreateThenGet ==
    [][(/\ last.op \in {"Insert", "InsertCheckToken"} /\ last.out = "nil"
        /\ Returns("Get") /\ last'.arg.user = last.arg.user)
         => /\ last'.out = "nil"
            /\ last'.ret = <<[Username |-> last.arg.user, Admin |-> last.arg.admin]>>]_vars

\* The accounts of the store, by username.
Accounts(store) == {u \in Usernames : AccountExists(store, u)}

\* The sequence s lists the usernames of S, each once, in the order of sort.
ListsSorted(s, S, sort) ==
    /\ Len(s) = Cardinality(S)
    /\ {s[i].Username : i \in 1..Len(s)} = S
    /\ \A i \in 1..(Len(s) - 1) :
          IF sort = "-username" THEN StringLess(s[i + 1].Username, s[i].Username)
          ELSE StringLess(s[i].Username, s[i + 1].Username)

\* C7 (listing completeness): GetAll without filters, page 1 and a page size
\* of at least the number of accounts returns every account once, sorted.
C7_ListingComplete ==
    (/\ last.op = "GetAll"
     /\ last.arg.nameFilter = <<>> /\ last.arg.adminFilter = "nil"
     /\ last.arg.page = 1 /\ last.arg.pageSize >= Cardinality(Accounts(kv)))
       => /\ last.out = "nil"
          /\ ListsSorted(last.ret, Accounts(kv), last.arg.sort)

\* C8 (idempotent delete): Delete(u) on a username with no key of its own
\* returns ErrRecordNotFound (its existence check finds nothing), whatever
\* other accounts exist; and a Delete(u) right after a Delete(u) returns
\* ErrRecordNotFound.
C8_IdempotentDelete ==
    [][/\ \A u \in Usernames, p \in Procs :
            (KeysOf(kv, u) = {} /\ pend[p].op = "idle")
               => ~(pend'[p].op = "Delete" /\ pend'[p].arg.user = u)
       /\ (last.op = "Delete" /\ Returns("Delete") /\ last'.arg.user = last.arg.user)
            => last'.out = "ErrRecordNotFound"]_vars

\* C9 (password-hash invariant): whenever the account key of a username
\* exists, its password-hash key exists.
C9_PasswordHashPresent ==
    \A u \in Usernames :
       AccountExists(kv, u) => GetUserHashedPasswordPath(u) \in DOMAIN kv

\* The account key a token key lies under.
ParentOf(k) ==
    SubSeq(k, 1, (CHOOSE i \in 1..Len(k) : k[i] = "tokens") - 2)

\* Every token key has its parent account key.
TokensHaveParent == \A k \in TokenKeys(kv) : ParentOf(k) \in DOMAIN kv

\* C10 (tokens never outlive their account): every token key has its parent
\* account key; when Delete(u) has returned success no key of u remains; and
\* while u has no account key Get(u) returns ErrRecordNotFound and the
\* transaction of GetUserCheckToken(u, any token) fails, the call returning
\* ErrRecordNotFound at once (pend' = pend: no caller is left inside it).
C10_TokensNeverOutlive ==
    /\ [](/\ TokensHaveParent
          /\ (last.op = "Delete" /\ last.out = "nil") => KeysOf(kv, last.arg.user) = {}
          /\ (last.op = "Get" /\ ~AccountExists(kv, last.arg.user))
                => last.out = "ErrRecordNotFound")
    /\ [][(Returns("GetUserCheckToken") /\ pend' = pend
               /\ ~AccountExists(kv, last'.arg.user))
            => last'.out = "ErrRecordNotFound"]_vars
    /\ [][\A p \in Procs :
            (pend[p].op = "idle" /\ pend'[p].op = "GetUserCheckToken")
            => AccountExists(kv, pend'[p].arg.user)]_vars

\* A Delete has just returned success and left no key of its account, while
\* a token key is held under another account.
C10_Witness ==
    /\ last.op = "Delete" /\ last.out = "nil"
    /\ KeysOf(kv, last.arg.user) = {}
    /\ TokenKeys(kv) # {}

\* C11 (the invariant-violation branch is unreachable): an InsertCheckToken
\* whose transaction did not succeed returns ErrInvalidCredentials or
\* ErrDuplicateUsername and never panics.
C11_PanicUnreachable ==
    [][\A p \in Procs :
         (pend[p].op = "InsertCheckToken" /\ pend'[p].op = "idle")
            => last'.out \in {"ErrInvalidCredentials", "ErrDuplicateUsername"}]_vars

C13_FirstAccountOnly ==
    [][Returns("Insert")
         => /\ last'.out = "nil" => Accounts(kv) = {}
            /\ Accounts(kv) # {} => (last'.out # "nil" /\ kv' = kv)]_vars

\* C13 as amended: Insert succeeds only when the account key of its own
\* username does not exist, and once that account exists every Insert for the
\* username returns ErrDuplicateUsername without writing.
C13_BootstrapPerUsername ==
    [][Returns("Insert")
         => /\ last'.out = "nil" => ~AccountExists(kv, last'.arg.user)
            /\ AccountExists(kv, last'.arg.user)
                  => (last'.out = "ErrDuplicateUsername" /\ kv' = kv)]_vars

\* An Insert for a username whose account exists has just been refused.
C13_Witness ==
    /\ last.op = "Insert" /\ last.out = "ErrDuplicateUsername"
    /\ AccountExists(kv, last.arg.user)

\* C14 (full-credential read reassembles the record): GetUserWithPassword(u)
\* returns ErrRecordNotFound exactly when no key of u exists, and otherwise a
\* User with Username = u and with Admin and BcryptedPassword taken from the
\* admin-flag and password-hash child keys of u.
C14_FullCredentialRead ==
    last.op = "GetUserWithPassword"
       => IF KeysOf(kv, last.arg.user) = {} THEN last.out = "ErrRecordNotFound"
          ELSE /\ last.out = "nil"
               /\ Len(last.ret) = 1
               /\ last.ret[1].Username = last.arg.user
               /\ GetUserAdminPath(last.arg.user) \in DOMAIN kv
                     => last.ret[1].Admin = (kv[GetUserAdminPath(last.arg.user)] = <<"true">>)
               /\ GetUserHashedPasswordPath(last.arg.user) \in DOMAIN kv
                     => last.ret[1].BcryptedPassword
                           = kv[GetUserHashedPasswordPath(last.arg.user)]

\* C15 (overwrite is unconditional and touches one key): UpdateNoLock(user)
\* returns nil in every store state, also while another caller is inside a
\* Delete; afterwards the account key of user.Username holds the serialized
\* record, which decodes to the user's name and admin flag, and every other key
\* is present with its value exactly as before.
C15_OverwriteOneKey ==
    [][Returns("UpdateNoLock")
         => /\ last'.out = "nil"
            /\ DOMAIN kv' = DOMAIN kv \cup {GetUserPath(last'.arg.user)}
            /\ \E user \in Users :
                  /\ user.Username = last'.arg.user /\ user.Admin = last'.arg.admin
                  /\ kv'[GetUserPath(last'.arg.user)] = MarshalUser(user)
            /\ Scrub(UnmarshalUser(kv'[GetUserPath(last'.arg.user)]))
                  = [Username |-> last'.arg.user, Admin |-> last'.arg.admin]
            /\ \A k \in DOMAIN kv \ {GetUserPath(last'.arg.user)} : kv'[k] = kv[k]]_vars

\* An overwrite has just returned for an account created with the other
\* admin flag and holding a token, while the other caller is inside a Delete.
C15_Witness ==
    /\ last.op = "UpdateNoLock" /\ last.out = "nil"
    /\ GetUserAdminPath(last.arg.user) \in DOMAIN kv
    /\ kv[GetUserAdminPath(last.arg.user)] # SprintBool(last.arg.admin)
    /\ \E k \in TokenKeys(kv) : HasPrefix(k, GetUserPath(last.arg.user) \o <<"/">>)
    /\ \E p \in Procs : pend[p].op = "Delete"

\* The admin flag of an account: its admin-flag key when it has one, else the
\* flag of the record on its account key.
AdminOf(store, u) ==
    IF GetUserAdminPath(u) \in DOMAIN store
    THEN store[GetUserAdminPath(u)] = <<"true">>
    ELSE UnmarshalUser(store[GetUserPath(u)]).Admin

\* The accounts that match the username and admin filters of a call.
Matching(store, arg) ==
    {u \in Accounts(store) :
        /\ arg.nameFilter = <<>> \/ Contains(u, arg.nameFilter)
        /\ arg.adminFilter = "nil" \/ AdminOf(store, u) = (arg.adminFilter = "true")}

\* u comes before v in the order of sort.
Before(u, v, sort) == IF sort = "-username" THEN StringLess(v, u) ELSE StringLess(u, v)

\* C16 (pagination of the listing): with m accounts matching the filters,
\* GetAll returns no error and counts m records; at an offset >= m the page is
\* empty, and otherwise it holds the sorted matches at positions
\* offset .. min(offset + limit, m) - 1, each once.
C16_Pagination ==
    last.op = "GetAll"
       => LET M == Matching(kv, last.arg)
              m == Cardinality(M)
              offset == (last.arg.page - 1) * last.arg.pageSize
              top == IF offset + last.arg.pageSize < m
                     THEN offset + last.arg.pageSize ELSE m
              ret == last.ret
          IN /\ last.out = "nil"
             /\ GetAllTotal(kv, last.arg.nameFilter, last.arg.adminFilter) = m
             /\ IF offset >= m THEN ret = <<>>
                ELSE /\ Len(ret) = top - offset
                     /\ \A i \in 1..Len(ret) :
                           /\ ret[i].Username \in M
                           /\ Cardinality({v \in M :
                                 Before(v, ret[i].Username, last.arg.sort)})
                                 = offset + i - 1

\* C17 (optimistic locking of transfer records): Update succeeds exactly when
\* the stored version equals the version the caller holds, and then the stored
\* version is that version plus 1; otherwise it returns ErrEditConflict and
\* leaves the table unchanged; no step decreases the version of a row.
C17_OptimisticLocking ==
    /\ [][Returns("TransferUpdate")
            => LET id == last'.arg.id
                   v == last'.arg.version
                   fresh == id \in DOMAIN transfers /\ transfers[id].Version = v
               IN IF fresh
                  THEN /\ last'.out = "nil"
                       /\ transfers'[id].Version = v + 1
                       /\ \A x \in DOMAIN transfers \ {id} : transfers'[x] = transfers[x]
                  ELSE last'.out = "ErrEditConflict" /\ transfers' = transfers]_vars
    /\ [][\A id \in DOMAIN transfers \cap DOMAIN transfers' :
            transfers'[id].Version >= transfers[id].Version]_vars

\* Two callers held the same version of a row: one has updated it, and the
\* other's Update has just returned ErrEditConflict.
C17_Witness ==
    /\ last.op = "TransferUpdate" /\ last.out = "ErrEditConflict"
    /\ last.arg.id \in DOMAIN transfers
    /\ transfers[last.arg.id].Version = last.arg.version + 1
    /\ \E p, q \in Procs :
          /\ p # q
          /\ held[p].ID = last.arg.id /\ held[p].Version = last.arg.version
          /\ held[q].ID = last.arg.id /\ held[q].Version = last.arg.version + 1

\* C18 (Delete affects only its own account): the deletion of Delete(u)
\* leaves the account key and every descendant key of every other username v
\* in place with its value, also when u is a string prefix of v.
C18_DeleteOwnAccountOnly ==
    [][\A p \in Procs :
         (pend[p].op = "Delete" /\ pend'[p].op = "idle")
            => \A v \in Usernames \ {pend[p].arg.user} :
                  \A k \in KeysOf(kv, v) : k \in DOMAIN kv' /\ kv'[k] = kv[k]]_vars

\* C19 (a rejected creation changes nothing): the step in which Insert returns
\* ErrDuplicateUsername, the transaction of an InsertCheckToken that does not
\* succeed, and the step in which that call returns its error all leave the
\* store exactly as it was.
C19_RejectedCreationWritesNothing ==
    [][/\ (Returns("Insert") /\ last'.out = "ErrDuplicateUsername") => kv' = kv
       /\ \A p \in Procs :
            /\ (pend[p].op = "idle" /\ pend'[p].op = "InsertCheckToken") => kv' = kv
            /\ (pend[p].op = "InsertCheckToken" /\ pend'[p].op = "idle") => kv' = kv]_vars

\* The transaction of an InsertCheckToken for an existing username has been
\* refused; it read the caller's token key, expired when it ran, and the key is
\* still in place with that value.
C19_Witness ==
    \E p \in Procs :
       /\ pend[p].op = "InsertCheckToken"
       /\ Len(pend[p].resp[1]) = 1 /\ Len(pend[p].resp[2]) = 1
       /\ ParseInt(pend[p].resp[1][1].Value) < pend[p].at
       /\ pend[p].resp[1][1].Key \in DOMAIN kv
       /\ kv[pend[p].resp[1][1].Key] = pend[p].resp[1][1].Value

====
